---- MODULE Spec2Model ----
(***************************************************************************)
(* The keep-alive container of src/core/components/keep-alive.ts: a cache  *)
(* of component instances keyed by string, a recency-ordered key list, a   *)
(* single staged insertion, include/exclude filters and a max bound.       *)
(*                                                                         *)
(* Strings that the code takes apart (a comma-separated filter, a max      *)
(* given as a string) are sequences of one-character strings; strings the  *)
(* code only compares or concatenates (keys, tags) are TLA+ strings.       *)
(***************************************************************************)
EXTENDS Integers, Sequences, FiniteSets, TLC

VARIABLES
  cache,         \* this.cache : key -> CacheEntry | null, own properties only
  keys,          \* this.keys : keys, oldest first
  vnodeToCache,  \* this.vnodeToCache : the staged node, or null
  keyToCache,    \* this.keyToCache : the staged key
  _vnode,        \* this._vnode : the node the container displays
  include,       \* props.include
  exclude,       \* props.exclude
  max,           \* props.max
  pc,            \* position in the container's lifecycle
  destroyCalls,  \* instance -> number of $destroy() calls made by the cache
  nextInst,      \* next instance the patch step materializes
  last           \* what the last handler did (observation only)

vars == <<cache, keys, vnodeToCache, keyToCache, _vnode, include, exclude,
          max, pc, destroyCalls, nextInst, last>>

----------------------------------------------------------------------------
(* Bounds *)

\* instances the patch step may materialize in a run
MaxInst == 3
\* the same, for the runs that only render and commit
MaxInstLRU == 4

----------------------------------------------------------------------------
(* Values *)

undefined == "undefined"
null == [isNull |-> TRUE]
NoInst == 0
Insts == 1..(MaxInst + MaxInstLRU)

CacheEntry(name, tag, componentInstance) ==
  [name |-> name, tag |-> tag, componentInstance |-> componentInstance]

\* own properties of the cache object
Has(c, key) == key \in DOMAIN c
Get(c, key) == IF Has(c, key) THEN c[key] ELSE null
LiveKeys(c) == {k \in DOMAIN c : c[k] # null}

\* tags a component is registered under, explicit keys of the child
CTags == {undefined, "x"}
VKeys == {undefined, "k"}

\* constructors: an anonymous one and a named one
Ctors == {[cid |-> 1, name |-> undefined], [cid |-> 2, name |-> "a"]}

NoOpts == [isNull |-> TRUE]

\* the tag of a component node names its constructor and, when there is
\* one, the component's name
ComponentTag(opts) ==
  "vue-component-" \o ToString(opts.Ctor.cid) \o
    (IF opts.Ctor.name # undefined THEN "-" \o opts.Ctor.name
     ELSE IF opts.tag # undefined THEN "-" \o opts.tag ELSE "")

VNode(key, tag, componentOptions) ==
  [key |-> key, tag |-> tag, componentOptions |-> componentOptions,
   componentInstance |-> NoInst, keepAlive |-> FALSE]

ComponentOptions == {[Ctor |-> c, tag |-> ct] : c \in Ctors, ct \in CTags}

\* the children render() is given. A keyless child is the anonymous
\* constructor, registered under a tag or not, or the named one untagged;
\* a keyed child is either constructor registered under a tag. Their cache
\* keys are "1", "1::x", "2" and "k".
ComponentVNodes ==
  { v \in { VNode(k, ComponentTag(opts), opts) :
              k \in VKeys, opts \in ComponentOptions } :
      IF v.key = undefined
      THEN v.componentOptions.Ctor.name # undefined
             => v.componentOptions.tag = undefined
      ELSE v.componentOptions.tag # undefined }

\* a slot without a component child: a node with no component options,
\* whose tag is left undefined
PlainVNode == VNode(undefined, undefined, NoOpts)

----------------------------------------------------------------------------
(* Filters: absent, a string, an array of names, or a regular expression   *)
(* (given by the set of names it accepts).                                 *)

StrPattern(chars) == [kind |-> "string", chars |-> chars]
ArrPattern(names) == [kind |-> "array", names |-> names]
RegPattern(accepts) == [kind |-> "regexp", accepts |-> accepts]
NoPattern == [kind |-> "undefined"]

IncludeValues ==
  { NoPattern, StrPattern(<<"a", ",", "x">>), ArrPattern(<<"x">>) }
ExcludeValues ==
  { NoPattern, RegPattern({"a"}) }

\* String.prototype.split(',') on a sequence of characters
RECURSIVE split(_, _)
split(chars, cur) ==
  IF chars = <<>> THEN <<cur>>
  ELSE IF Head(chars) = ","
       THEN <<cur>> \o split(Tail(chars), <<>>)
       ELSE split(Tail(chars), Append(cur, Head(chars)))

\* Array.prototype.indexOf(x) > -1
Contains(seq, x) == \E i \in 1..Len(seq) : seq[i] = x

\* names are one character long
matches(pattern, name) ==
  IF pattern.kind = "array" THEN Contains(pattern.names, name)
  ELSE IF pattern.kind = "string"
       THEN Contains(split(pattern.chars, <<>>), <<name>>)
  ELSE IF pattern.kind = "regexp" THEN name \in pattern.accepts
  ELSE FALSE

\* a filter value in a boolean position
PatternTruthy(pattern) ==
  CASE pattern.kind = "undefined" -> FALSE
    [] pattern.kind = "string" -> pattern.chars # <<>>
    [] OTHER -> TRUE

----------------------------------------------------------------------------
(* max: absent, a number, or a string *)

NumMax(n) == [kind |-> "number", val |-> n]
StrMax(chars) == [kind |-> "string", chars |-> chars]
NoMax == [kind |-> "undefined"]

\* the max of the main runs; an absent max; positive ones; the others
MaxValues == { NumMax(2) }
NoMaxValues == { NoMax }
CappedValues == { NumMax(1), StrMax(<<"2">>) }
LRUValues == { NumMax(1), NumMax(2), StrMax(<<"2">>) }
OtherValues ==
  { NoMax, NumMax(0), NumMax(-1), StrMax(<<"0">>), StrMax(<<"-", "1">>),
    StrMax(<<"x">>) }

Digits == {"0", "1", "2", "3", "4", "5", "6", "7", "8", "9"}
DigitVal(d) ==
  CASE d = "0" -> 0 [] d = "1" -> 1 [] d = "2" -> 2 [] d = "3" -> 3
    [] d = "4" -> 4 [] d = "5" -> 5 [] d = "6" -> 6 [] d = "7" -> 7
    [] d = "8" -> 8 [] d = "9" -> 9

NaN == [nan |-> TRUE, val |-> 0]
Num(n) == [nan |-> FALSE, val |-> n]

\* the leading run of decimal digits, as a number; seen = a digit was read
RECURSIVE parseDigits(_, _, _)
parseDigits(chars, acc, seen) ==
  IF chars # <<>> /\ Head(chars) \in Digits
  THEN parseDigits(Tail(chars), 10 * acc + DigitVal(Head(chars)), TRUE)
  ELSE IF seen THEN Num(acc) ELSE NaN

\* parseInt(string): optional sign, leading digits, NaN when there are none
parseIntChars(chars) ==
  IF chars # <<>> /\ Head(chars) = "-"
  THEN LET r == parseDigits(Tail(chars), 0, FALSE)
       IN IF r.nan THEN NaN ELSE Num(0 - r.val)
  ELSE IF chars # <<>> /\ Head(chars) = "+"
       THEN parseDigits(Tail(chars), 0, FALSE)
       ELSE parseDigits(chars, 0, FALSE)

\* parseInt(this.max); a number is an integer here and parses to itself
parseInt(m) ==
  CASE m.kind = "number" -> Num(m.val)
    [] m.kind = "string" -> parseIntChars(m.chars)
    [] OTHER -> NaN

\* this.max in a boolean position
MaxTruthy(m) ==
  CASE m.kind = "number" -> m.val # 0
    [] m.kind = "string" -> m.chars # <<>>
    [] OTHER -> FALSE

\* n > parseInt(max): false against NaN
GreaterThan(n, p) == ~p.nan /\ n > p.val

----------------------------------------------------------------------------
(* Helpers of the component *)

\* remove(arr, item) of shared/util: drops the first occurrence
RECURSIVE remove(_, _)
remove(arr, item) ==
  IF arr = <<>> THEN <<>>
  ELSE IF Head(arr) = item THEN Tail(arr)
       ELSE <<Head(arr)>> \o remove(Tail(arr), item)

\* getComponentName(opts.Ctor.options) || opts.tag
_getComponentName(opts) ==
  IF opts = NoOpts THEN undefined
  ELSE IF opts.Ctor.name # undefined THEN opts.Ctor.name ELSE opts.tag

\* the store the helpers mutate in place: cache, keys, and the $destroy()
\* calls made so far
Store(c, ks, d) == [cache |-> c, keys |-> ks, destroyCalls |-> d]

\* mutants of pruneCacheEntry: one that tears down whatever the current
\* node, one that leaves the key in keys, one that leaves the entry in place
pruneCacheEntryAlwaysDestroys(S, key, current) ==
  LET entry == Get(S.cache, key)
  IN Store([k \in DOMAIN S.cache \cup {key} |->
              IF k = key THEN null ELSE S.cache[k]],
           remove(S.keys, key),
           IF entry # null
           THEN [S.destroyCalls EXCEPT ![entry.componentInstance] = @ + 1]
           ELSE S.destroyCalls)

pruneCacheEntryKeepsKey(S, key, current) ==
  LET entry == Get(S.cache, key)
      destroy == entry # null /\ (current = null \/ entry.tag # current.tag)
  IN Store([k \in DOMAIN S.cache \cup {key} |->
              IF k = key THEN null ELSE S.cache[k]],
           S.keys,
           IF destroy
           THEN [S.destroyCalls EXCEPT ![entry.componentInstance] = @ + 1]
           ELSE S.destroyCalls)

pruneCacheEntryKeepsEntry(S, key, current) ==
  LET entry == Get(S.cache, key)
      destroy == entry # null /\ (current = null \/ entry.tag # current.tag)
  IN Store(S.cache,
           remove(S.keys, key),
           IF destroy
           THEN [S.destroyCalls EXCEPT ![entry.componentInstance] = @ + 1]
           ELSE S.destroyCalls)

pruneCacheEntry(S, key, current) ==
  LET entry == Get(S.cache, key)
      destroy == entry # null /\ (current = null \/ entry.tag # current.tag)
  IN Store([k \in DOMAIN S.cache \cup {key} |->
              IF k = key THEN null ELSE S.cache[k]],
           remove(S.keys, key),
           IF destroy
           THEN [S.destroyCalls EXCEPT ![entry.componentInstance] = @ + 1]
           ELSE S.destroyCalls)

\* mutant of ExcludeFilter: the sweep keeps the names exclude matches
ExcludeFilterNotNegated(val) == [val |-> val, negate |-> FALSE]

\* the two filter functions the watchers pass to pruneCache
\* (mutant of IncludeFilter: the test is negated)
IncludeFilterNegated(val) == [val |-> val, negate |-> TRUE]
IncludeFilter(val) == [val |-> val, negate |-> FALSE]
ExcludeFilter(val) == [val |-> val, negate |-> TRUE]
Apply(filter, name) ==
  IF filter.negate THEN ~matches(filter.val, name)
  ELSE matches(filter.val, name)

\* for (const key in cache): the keys are visited one by one; the visits
\* touch disjoint entries, so their order does not show in the result
\* mutant of shouldPrune: the name is not tested for presence
shouldPruneUnnamed(entry, filter) ==
  entry # null /\ ~Apply(filter, entry.name)

\* if (entry) { const name = entry.name; if (name && !filter(name)) ...
shouldPrune(entry, filter) ==
  entry # null /\ entry.name # undefined /\ ~Apply(filter, entry.name)

RECURSIVE pruneCacheLoop(_, _, _, _)
pruneCacheLoop(S, todo, current, filter) ==
  IF todo = {} THEN S
  ELSE LET key == CHOOSE k \in todo : TRUE
           entry == S.cache[key]
           S1 == IF shouldPrune(entry, filter)
                 THEN pruneCacheEntry(S, key, current)
                 ELSE S
       IN pruneCacheLoop(S1, todo \ {key}, current, filter)

pruneCache(S, current, filter) ==
  pruneCacheLoop(S, DOMAIN S.cache, current, filter)

\* mutant of overCapacity: one key too many is let through
overCapacityOffByOne(m, n) ==
  MaxTruthy(m) /\ GreaterThan(n - 1, parseInt(m))

\* this.max && keys.length > parseInt(this.max)
overCapacity(m, n) ==
  MaxTruthy(m) /\ GreaterThan(n, parseInt(m))

\* mutant of oldest: the newest key
newest(ks) == ks[Len(ks)]

\* keys[0]
oldest(ks) == ks[1]

\* the body of cacheVNode() when a node is staged
cacheVNode(S, vnode, key, m, current) ==
  LET S1 == Store([k \in DOMAIN S.cache \cup {key} |->
                     IF k = key
                     THEN CacheEntry(_getComponentName(vnode.componentOptions),
                                     vnode.tag, vnode.componentInstance)
                     ELSE S.cache[k]],
                  Append(S.keys, key),
                  S.destroyCalls)
  IN IF overCapacity(m, Len(S1.keys))
     THEN pruneCacheEntry(S1, oldest(S1.keys), current)
     ELSE S1

\* destroyed(): every own key of the cache, no current node
RECURSIVE destroyedLoop(_, _)
destroyedLoop(S, todo) ==
  IF todo = {} THEN S
  ELSE LET key == CHOOSE k \in todo : TRUE
       IN destroyedLoop(pruneCacheEntry(S, key, null), todo \ {key})

\* mutant of NotCached: exclude is not looked at
NotCachedIncludeOnly(inc, exc, name) ==
  PatternTruthy(inc) /\ (name = undefined \/ ~matches(inc, name))

\* mutant of NotCached: a child without a name passes include
NotCachedUnnamedPass(inc, exc, name) ==
  \/ PatternTruthy(inc) /\ name # undefined /\ ~matches(inc, name)
  \/ PatternTruthy(exc) /\ name # undefined /\ matches(exc, name)

\* the filter check of render(): TRUE when the node is returned as it is
NotCached(inc, exc, name) ==
  \/ PatternTruthy(inc) /\ (name = undefined \/ ~matches(inc, name))
  \/ PatternTruthy(exc) /\ name # undefined /\ matches(exc, name)

\* mutant of touch: the key stays where it is
touchInPlace(ks, key) == ks

\* mutant of touch: the key is pushed without being removed first
touchDuplicates(ks, key) == Append(ks, key)

\* remove(keys, key); keys.push(key)
touch(ks, key) == Append(remove(ks, key), key)

\* mutant of CacheKey: the tag the component is registered under is left out
CacheKeyCidOnly(vnode) ==
  IF vnode.key = undefined
  THEN ToString(vnode.componentOptions.Ctor.cid)
  ELSE vnode.key

\* the key render() looks the node up under
CacheKey(vnode) ==
  IF vnode.key = undefined
  THEN ToString(vnode.componentOptions.Ctor.cid) \o
         (IF vnode.componentOptions.tag # undefined
          THEN "::" \o vnode.componentOptions.tag ELSE "")
  ELSE vnode.key

----------------------------------------------------------------------------
(* The container *)

\* what a handler did: the branch render() took, the key it resolved, the
\* instance it put on the node it returned, the entries the handler removed
Observed(op, kind, key, evicted, bound) ==
  [op |-> op, kind |-> kind, key |-> key, evicted |-> evicted,
   bound |-> bound]

Removed(before, after) ==
  {[key |-> k, entry |-> before[k]] : k \in LiveKeys(before) \ LiveKeys(after)}

InitWith(maxes) ==
  /\ cache = [k \in {} |-> null]
  /\ keys = <<>>
  /\ vnodeToCache = null
  /\ keyToCache = undefined
  /\ _vnode = null
  /\ include \in IncludeValues
  /\ exclude \in ExcludeValues
  /\ max \in maxes
  /\ pc = "created"
  /\ destroyCalls = [i \in Insts |-> 0]
  /\ nextInst = 1
  /\ last = Observed("created", "none", undefined, {}, NoInst)

Init == InitWith(MaxValues)

\* mutant of RenderWithin: a miss inserts the entry at once
RenderWithinEager(vnode, budget) ==
  /\ pc \in {"created", "idle"}
  /\ LET componentOptions == vnode.componentOptions
         name == _getComponentName(componentOptions)
         key == CacheKey(vnode)
         kind == IF componentOptions = NoOpts THEN "plain"
                 ELSE IF NotCached(include, exclude, name) THEN "bypass"
                 ELSE IF Get(cache, key) # null THEN "hit" ELSE "miss"
         out == CASE kind = "plain" -> vnode
                  [] kind = "bypass" -> vnode
                  [] kind = "hit" ->
                       [vnode EXCEPT
                          !.componentInstance = cache[key].componentInstance,
                          !.keepAlive = TRUE]
                  [] kind = "miss" -> [vnode EXCEPT !.keepAlive = TRUE]
         fresh == kind \in {"bypass", "miss"}
         shown == IF fresh
                  THEN [out EXCEPT !.componentInstance = nextInst]
                  ELSE out
     IN /\ fresh => nextInst <= budget
        /\ keys' = CASE kind = "hit" -> touch(keys, key)
                     [] kind = "miss" -> Append(keys, key)
                     [] OTHER -> keys
        /\ cache' = IF kind = "miss"
                    THEN [k \in DOMAIN cache \cup {key} |->
                            IF k = key
                            THEN CacheEntry(name, shown.tag,
                                            shown.componentInstance)
                            ELSE cache[k]]
                    ELSE cache
        /\ vnodeToCache' = IF kind = "miss" THEN shown ELSE vnodeToCache
        /\ keyToCache' = IF kind = "miss" THEN key ELSE keyToCache
        /\ _vnode' = shown
        /\ nextInst' = IF fresh THEN nextInst + 1 ELSE nextInst
        /\ last' = Observed("render", kind,
                            IF kind = "plain" THEN undefined ELSE key,
                            {}, out.componentInstance)
  /\ pc' = IF pc = "created" THEN "mounting" ELSE "updating"
  /\ UNCHANGED <<include, exclude, max, destroyCalls>>

\* render() on the slot's child, followed by the patch that displays the
\* returned node: a node that comes back without an instance gets a new one,
\* as long as the run has instances left
RenderWithin(vnode, budget) ==
  /\ pc \in {"created", "idle"}
  /\ LET componentOptions == vnode.componentOptions
         name == _getComponentName(componentOptions)
         key == CacheKey(vnode)
         kind == IF componentOptions = NoOpts THEN "plain"
                 ELSE IF NotCached(include, exclude, name) THEN "bypass"
                 ELSE IF Get(cache, key) # null THEN "hit" ELSE "miss"
         out == CASE kind = "plain" -> vnode
                  [] kind = "bypass" -> vnode
                  [] kind = "hit" ->
                       [vnode EXCEPT
                          !.componentInstance = cache[key].componentInstance,
                          !.keepAlive = TRUE]
                  [] kind = "miss" -> [vnode EXCEPT !.keepAlive = TRUE]
         fresh == kind \in {"bypass", "miss"}
         shown == IF fresh
                  THEN [out EXCEPT !.componentInstance = nextInst]
                  ELSE out
     IN /\ fresh => nextInst <= budget
        /\ keys' = IF kind = "hit" THEN touch(keys, key) ELSE keys
        /\ vnodeToCache' = IF kind = "miss" THEN shown ELSE vnodeToCache
        /\ keyToCache' = IF kind = "miss" THEN key ELSE keyToCache
        /\ _vnode' = shown
        /\ nextInst' = IF fresh THEN nextInst + 1 ELSE nextInst
        /\ last' = Observed("render", kind,
                            IF kind = "plain" THEN undefined ELSE key,
                            {}, out.componentInstance)
  /\ pc' = IF pc = "created" THEN "mounting" ELSE "updating"
  /\ UNCHANGED <<cache, include, exclude, max, destroyCalls>>

Render(vnode) == RenderWithin(vnode, MaxInst)

\* mutant of Commit: the staged node is not cleared
CommitKeepsPending ==
  LET S == Store(cache, keys, destroyCalls)
      S1 == IF vnodeToCache # null
            THEN cacheVNode(S, vnodeToCache, keyToCache, max, _vnode)
            ELSE S
      inserted == cacheVNode(S, vnodeToCache, keyToCache, NoMax, _vnode).cache
  IN /\ cache' = S1.cache
     /\ keys' = S1.keys
     /\ destroyCalls' = S1.destroyCalls
     /\ last' = IF vnodeToCache # null
                THEN Observed("commit", "insert", keyToCache,
                              Removed(inserted, S1.cache), NoInst)
                ELSE Observed("commit", "none", undefined, {}, NoInst)
     /\ UNCHANGED <<vnodeToCache, keyToCache, _vnode, include, exclude, max, nextInst>>

\* this.cacheVNode(), called by mounted() and updated()
Commit ==
  LET S == Store(cache, keys, destroyCalls)
      S1 == IF vnodeToCache # null
            THEN cacheVNode(S, vnodeToCache, keyToCache, max, _vnode)
            ELSE S
      inserted == cacheVNode(S, vnodeToCache, keyToCache, NoMax, _vnode).cache
  IN /\ cache' = S1.cache
     /\ keys' = S1.keys
     /\ destroyCalls' = S1.destroyCalls
     /\ vnodeToCache' = null
     /\ last' = IF vnodeToCache # null
                THEN Observed("commit", "insert", keyToCache,
                              Removed(inserted, S1.cache), NoInst)
                ELSE Observed("commit", "none", undefined, {}, NoInst)
     /\ UNCHANGED <<keyToCache, _vnode, include, exclude, max, nextInst>>

\* mounted(): the first commit; the two watchers exist from here on
Mounted ==
  /\ pc = "mounting"
  /\ Commit
  /\ pc' = "idle"

\* updated(): a commit after every update of the container
Updated ==
  /\ pc \in {"updating", "idle"}
  /\ Commit
  /\ pc' = "idle"

\* the watcher of include fires with the new value
IncludeChanged(val) ==
  /\ pc = "idle"
  /\ val # include
  /\ include' = val
  /\ LET S == pruneCache(Store(cache, keys, destroyCalls), _vnode,
                         IncludeFilter(val))
     IN /\ cache' = S.cache
        /\ keys' = S.keys
        /\ destroyCalls' = S.destroyCalls
        /\ last' = Observed("include", "sweep", undefined,
                            Removed(cache, S.cache), NoInst)
  /\ UNCHANGED <<vnodeToCache, keyToCache, _vnode, exclude, max, pc, nextInst>>

\* the watcher of exclude fires with the new value
ExcludeChanged(val) ==
  /\ pc = "idle"
  /\ val # exclude
  /\ exclude' = val
  /\ LET S == pruneCache(Store(cache, keys, destroyCalls), _vnode,
                         ExcludeFilter(val))
     IN /\ cache' = S.cache
        /\ keys' = S.keys
        /\ destroyCalls' = S.destroyCalls
        /\ last' = Observed("exclude", "sweep", undefined,
                            Removed(cache, S.cache), NoInst)
  /\ UNCHANGED <<vnodeToCache, keyToCache, _vnode, include, max, pc, nextInst>>

\* destroyed(): the container is torn down
Destroyed ==
  /\ pc = "idle"
  /\ LET S == destroyedLoop(Store(cache, keys, destroyCalls), DOMAIN cache)
     IN /\ cache' = S.cache
        /\ keys' = S.keys
        /\ destroyCalls' = S.destroyCalls
        /\ last' = Observed("destroyed", "all", undefined,
                            Removed(cache, S.cache), NoInst)
  /\ pc' = "destroyed"
  /\ UNCHANGED <<vnodeToCache, keyToCache, _vnode, include, exclude, max, nextInst>>

Next ==
  \/ \E vnode \in ComponentVNodes \cup {PlainVNode} : Render(vnode)
  \/ Mounted
  \/ Updated
  \/ \E val \in IncludeValues : IncludeChanged(val)
  \/ \E val \in ExcludeValues : ExcludeChanged(val)
  \/ Destroyed

Spec == Init /\ [][Next]_vars

\* the container without a max
InitNoMax == InitWith(NoMaxValues)
SpecNoMax == InitNoMax /\ [][Next]_vars

\* the container with a positive max
InitCapped == InitWith(CappedValues)
SpecCapped == InitCapped /\ [][Next]_vars

\* the container with a max that is absent, not positive or not a number
InitOther == InitWith(OtherValues)
SpecOther == InitOther /\ [][Next]_vars

\* the container with a positive max and no filter: renders and commits only
InitLRU ==
  /\ InitWith(LRUValues)
  /\ include = NoPattern
  /\ exclude = NoPattern
NextLRU ==
  \/ \E vnode \in ComponentVNodes : RenderWithin(vnode, MaxInstLRU)
  \/ Mounted
  \/ Updated
SpecLRU == InitLRU /\ [][NextLRU]_vars

\* the container with no filter, given every child: either constructor,
\* registered under a tag or not, with an explicit key or without
AllComponentVNodes ==
  { VNode(k, ComponentTag(opts), opts) :
      k \in VKeys, opts \in ComponentOptions }
InitKeys ==
  /\ InitWith(MaxValues)
  /\ include = NoPattern
  /\ exclude = NoPattern
NextKeys ==
  \/ \E vnode \in AllComponentVNodes : Render(vnode)
  \/ Mounted
  \/ Updated
SpecKeys == InitKeys /\ [][NextKeys]_vars

\* cacheVNode() and the pruneCacheEntry() it calls, one statement at a time:
\* $destroy() runs the hooks of the instance, which see the container as the
\* statements before the call have left it

\* cacheVNode() up to its capacity test
cacheVNodeInsert ==
  /\ pc \in {"mounting", "updating", "idle"}
  /\ IF vnodeToCache = null
     THEN /\ pc' = "idle"
          /\ last' = Observed("commit", "none", undefined, {}, NoInst)
          /\ UNCHANGED <<cache, keys, vnodeToCache>>
     ELSE /\ cache' = [k \in DOMAIN cache \cup {keyToCache} |->
                        IF k = keyToCache
                        THEN CacheEntry(
                               _getComponentName(vnodeToCache.componentOptions),
                               vnodeToCache.tag, vnodeToCache.componentInstance)
                        ELSE cache[k]]
          /\ keys' = Append(keys, keyToCache)
          /\ last' = Observed("commit", "insert", keyToCache, {}, NoInst)
          /\ IF overCapacity(max, Len(keys) + 1)
             THEN pc' = "pruneCacheEntry:100" /\ vnodeToCache' = vnodeToCache
             ELSE pc' = "idle" /\ vnodeToCache' = null
  /\ UNCHANGED <<keyToCache, _vnode, include, exclude, max, destroyCalls,
                 nextInst>>

\* pruneCacheEntry(cache, keys[0], keys, this._vnode): the guarded $destroy()
pruneCacheEntryDestroy ==
  /\ pc = "pruneCacheEntry:100"
  /\ LET entry == Get(cache, oldest(keys))
     IN destroyCalls' =
          IF entry # null /\ (_vnode = null \/ entry.tag # _vnode.tag)
          THEN [destroyCalls EXCEPT ![entry.componentInstance] = @ + 1]
          ELSE destroyCalls
  /\ pc' = "pruneCacheEntry:105"
  /\ UNCHANGED <<cache, keys, vnodeToCache, keyToCache, _vnode, include,
                 exclude, max, nextInst, last>>

\* cache[key] = null
pruneCacheEntryNull ==
  /\ pc = "pruneCacheEntry:105"
  /\ cache' = [cache EXCEPT ![oldest(keys)] = null]
  /\ pc' = "pruneCacheEntry:106"
  /\ UNCHANGED <<keys, vnodeToCache, keyToCache, _vnode, include, exclude,
                 max, destroyCalls, nextInst, last>>

\* remove(keys, key), then back in cacheVNode(): this.vnodeToCache = null
pruneCacheEntryRemove ==
  /\ pc = "pruneCacheEntry:106"
  /\ keys' = remove(keys, oldest(keys))
  /\ vnodeToCache' = null
  /\ pc' = "idle"
  /\ UNCHANGED <<cache, keyToCache, _vnode, include, exclude, max,
                 destroyCalls, nextInst, last>>

NextSteps ==
  \/ \E vnode \in ComponentVNodes : Render(vnode)
  \/ cacheVNodeInsert
  \/ pruneCacheEntryDestroy
  \/ pruneCacheEntryNull
  \/ pruneCacheEntryRemove
SpecSteps == Init /\ [][NextSteps]_vars

----------------------------------------------------------------------------
(* What the properties are stated with *)

\* the names a filter value stands for
NamesOf(v) ==
  CASE v = NoPattern -> {}
    [] v = StrPattern(<<"a", ",", "x">>) -> {"a", "x"}
    [] v = ArrPattern(<<"x">>) -> {"x"}
    [] v = RegPattern({"a"}) -> {"a"}

\* the integer a positive max stands for
Limit(m) ==
  CASE m = NumMax(1) -> 1
    [] m = NumMax(2) -> 2
    [] m = StrMax(<<"2">>) -> 2

Live == LiveKeys(cache)
InstancesIn(c) == {c[k].componentInstance : k \in LiveKeys(c)}

RenderStep == pc \in {"created", "idle"} /\ pc' \in {"mounting", "updating"}
IncludeStep == include' # include
ExcludeStep == exclude' # exclude
DestroyStep == pc # "destroyed" /\ pc' = "destroyed"

----------------------------------------------------------------------------
(* Properties *)

\* C1: a render of an eligible child whose key has a live entry puts the
\* instance of that entry on the node it returns and on display, stages
\* nothing, and leaves the key last in keys.
C1_HitReusesInstance ==
  (last.op = "render" /\ last.kind \in {"hit", "miss"}
     /\ Get(cache, last.key) # null) =>
    /\ last.bound = cache[last.key].componentInstance
    /\ _vnode.componentInstance = cache[last.key].componentInstance
    /\ vnodeToCache = null
    /\ keys # <<>>
    /\ keys[Len(keys)] = last.key

C1_Witness ==
  /\ last.op = "render"
  /\ last.kind = "hit"
  /\ Len(keys) >= 2
  /\ last.bound = cache[last.key].componentInstance

\* C2: with max a positive integer N, whenever no render is waiting for its
\* commit, at most N entries are live.
C2_LiveCountWithinMax ==
  pc \in {"idle", "destroyed"} => Cardinality(Live) <= Limit(max)

C2_Witness ==
  /\ pc = "idle"
  /\ last.op = "commit"
  /\ last.evicted # {}
  /\ Limit(max) = 2
  /\ Cardinality(Live) = 2

\* C3: a commit whose insertion brings the number of live entries above a
\* positive max removes exactly the head of keys, never the key it inserts,
\* and keeps the other keys in their order; with max = 2, inserting "1", "2"
\* then "1::x" leaves <<"2", "1::x">>, and a hit on "2" followed by the
\* insertion of "k" leaves exactly "2" and "k".
C3_EvictsOldestOnly ==
  [][ (vnodeToCache # null /\ pc' = "idle"
         /\ Cardinality(Live) + 1 > Limit(max)) =>
        /\ keys # <<>>
        /\ keys' = Tail(keys) \o <<keyToCache>>
        /\ LiveKeys(cache') = (Live \ {keys[1]}) \cup {keyToCache}
        /\ keyToCache # keys[1]
        /\ \A k \in Live \ {keys[1]} : cache'[k] = cache[k]
        /\ (max = NumMax(2) /\ keys = <<"1", "2">> /\ keyToCache = "1::x")
             => keys' = <<"2", "1::x">>
        /\ (max = NumMax(2) /\ keys = <<"1::x", "2">> /\ keyToCache = "k")
             => (keys' = <<"2", "k">> /\ LiveKeys(cache') = {"2", "k"})
    ]_vars

C3_Witness ==
  /\ max = NumMax(2)
  /\ last.op = "commit"
  /\ last.key = "k"
  /\ keys = <<"2", "k">>
  /\ Live = {"2", "k"}
  /\ DOMAIN cache = {"1", "2", "1::x", "k"}
  /\ cache["2"].componentInstance = 2
  /\ {r.key : r \in last.evicted} = {"1::x"}

SweepLeaves(gone) ==
  /\ LiveKeys(cache') = Live \ gone
  /\ \A k \in Live \ gone :
       /\ cache'[k] = cache[k]
       /\ destroyCalls'[cache[k].componentInstance] =
            destroyCalls[cache[k].componentInstance]
  /\ keys' = SelectSeq(keys, LAMBDA k : k \notin gone)

\* C5: the sweep after a change of include to v removes exactly the live
\* entries with a name that v does not match, the sweep after a change of
\* exclude to v exactly those with a name that v matches; the other entries
\* keep their instance, their place in the cache and their order in keys.
C5_SweepRemovesExactlyFailingNames ==
  [][ /\ IncludeStep =>
           SweepLeaves({k \in Live : /\ cache[k].name # undefined
                                     /\ cache[k].name \notin NamesOf(include')})
      /\ ExcludeStep =>
           SweepLeaves({k \in Live : /\ cache[k].name # undefined
                                     /\ cache[k].name \in NamesOf(exclude')})
    ]_vars

C5_Witness ==
  /\ last.op = "include"
  /\ include = ArrPattern(<<"x">>)
  /\ \E r \in last.evicted : r.entry.name = "a"
  /\ \E k \in Live : cache[k].name = "x"
  /\ \E k \in Live : cache[k].name = undefined

\* the rule render() is to decide by
Ineligible(inc, exc, name) ==
  \/ inc # NoPattern /\ (name = undefined \/ name \notin NamesOf(inc))
  \/ exc # NoPattern /\ name # undefined /\ name \in NamesOf(exc)

\* C6: a render of a child the filters make ineligible returns the node
\* unmarked and with no instance on it, the node shown holds no cached
\* instance, and the cache, keys and the staged node and key stay as they
\* were, also when the child's key has a live entry.
C6_BypassTouchesNothing ==
  [][ (/\ RenderStep
       /\ _vnode'.componentOptions # NoOpts
       /\ Ineligible(include, exclude,
                     _getComponentName(_vnode'.componentOptions))) =>
        /\ ~_vnode'.keepAlive
        /\ last'.bound = NoInst
        /\ _vnode'.componentInstance \notin InstancesIn(cache)
        /\ UNCHANGED <<cache, keys, vnodeToCache, keyToCache>>
    ]_vars

C6_Witness ==
  /\ last.op = "render"
  /\ last.kind = "bypass"
  /\ Get(cache, last.key) # null
  /\ ~_vnode.keepAlive

\* C7: destroyed() tears down the instance of every entry that was live,
\* whatever its tag and the tag of the node on display, and leaves no live
\* entry and no key.
C7_DestroyedTearsDownAll ==
  [][ DestroyStep =>
        /\ \A k \in Live :
             destroyCalls'[cache[k].componentInstance] =
               destroyCalls[cache[k].componentInstance] + 1
        /\ LiveKeys(cache') = {}
        /\ keys' = <<>>
    ]_vars

C7_Witness ==
  /\ pc = "destroyed"
  /\ Cardinality(last.evicted) = 3
  /\ \E r1, r2 \in last.evicted :
       r1.entry.tag = _vnode.tag /\ r2.entry.tag # _vnode.tag
  /\ \A r \in last.evicted : destroyCalls[r.entry.componentInstance] = 1

\* C8: no instance is torn down by the cache more than once.
C8_TornDownAtMostOnce ==
  \A i \in Insts : destroyCalls[i] <= 1

C8_Witness ==
  /\ pc = "destroyed"
  /\ last.evicted # {}
  /\ \E k \in DOMAIN cache : k \notin {r.key : r \in last.evicted}
  /\ \E i \in Insts :
       /\ destroyCalls[i] = 1
       /\ i \notin {r.entry.componentInstance : r \in last.evicted}

\* C9: with a max that is absent, not a number, zero or negative, no commit
\* removes an entry, and the entry a commit inserts is live after it.
C9_NoLimitNeverEvicts ==
  last.op = "commit" =>
    /\ last.evicted = {}
    /\ last.kind = "insert" => Get(cache, last.key) # null

\* C10: a sweep after a change of include or exclude leaves every entry
\* without a name live, in keys, and its instance not torn down.
C10_UnnamedSurviveSweeps ==
  [][ (IncludeStep \/ ExcludeStep) =>
        \A k \in Live :
          cache[k].name = undefined =>
            /\ cache'[k] = cache[k]
            /\ Contains(keys', k)
            /\ destroyCalls'[cache[k].componentInstance] =
                 destroyCalls[cache[k].componentInstance]
    ]_vars

C10_Witness ==
  /\ last.op = "include"
  /\ include = NoPattern
  /\ last.evicted # {}
  /\ \E k \in Live : cache[k].name = undefined /\ cache[k].tag # _vnode.tag

\* C11: after a render of a component child, the node on display is
\* unmarked, holds no cached instance and is not staged exactly when include
\* is set and the child has no name or a name include does not match, or
\* exclude is set and the child has a name exclude matches; in every other
\* case the node is marked keepAlive and is either bound to the instance of
\* the live entry of its key or staged under its key.
C11_DecideRule ==
  (last.op = "render" /\ _vnode.componentOptions # NoOpts) =>
    LET name == _getComponentName(_vnode.componentOptions)
        served == /\ Get(cache, last.key) # null
                  /\ _vnode.componentInstance =
                       cache[last.key].componentInstance
        staged == vnodeToCache = _vnode /\ keyToCache = last.key
    IN IF Ineligible(include, exclude, name)
       THEN ~_vnode.keepAlive /\ ~served /\ ~staged
       ELSE _vnode.keepAlive /\ (served \/ staged)

C11_Witness ==
  /\ last.op = "render"
  /\ include = StrPattern(<<"a", ",", "x">>)
  /\ exclude = RegPattern({"a"})
  /\ _vnode.componentOptions # NoOpts
  /\ _getComponentName(_vnode.componentOptions) = "a"
  /\ ~_vnode.keepAlive

\* C12: in every state the keys in keys are exactly the keys whose entry in
\* the cache is not null, and no key is in keys twice.
C12_KeysMatchLiveEntries ==
  /\ {keys[i] : i \in DOMAIN keys} = Live
  /\ \A i, j \in DOMAIN keys : keys[i] = keys[j] => i = j

C12_Witness ==
  /\ last.op = "render"
  /\ last.kind = "hit"
  /\ Len(keys) = 2
  /\ keys[2] = last.key
  /\ \E k \in DOMAIN cache : cache[k] = null

\* C13: every entry a commit or a sweep removes without tearing its instance
\* down holds the instance of the node on display, so no instance that is
\* neither on display nor in a live entry is left without a teardown.
C13_SparedIsDisplayed ==
  last.op \in {"commit", "include", "exclude"} =>
    \A r \in last.evicted :
      destroyCalls[r.entry.componentInstance] = 0 =>
        r.entry.componentInstance = _vnode.componentInstance

\* C14: while the container is alive, the instance of the node on display
\* has not been torn down by a commit or a sweep.
C14_DisplayedNeverTornDown ==
  (pc # "destroyed" /\ _vnode # null /\ _vnode.componentInstance \in Insts) =>
    destroyCalls[_vnode.componentInstance] = 0

\* C15: every entry the sweep after a change of include or exclude removes
\* has a name that the rule of render() makes ineligible under the new
\* include and exclude; after a change of include to no value, the entries
\* that stay eligible stay in the cache.
C15_SweepRemovesOnlyIneligible ==
  last.op \in {"include", "exclude"} =>
    \A r \in last.evicted : Ineligible(include, exclude, r.entry.name)

\* C16 as stated: whenever the container is idle, no live entry, with or
\* without a name, is ineligible under the current include and exclude.
C16_NoIneligibleLive ==
  pc = "idle" =>
    \A k \in Live : ~Ineligible(include, exclude, cache[k].name)

\* C16 amended: whenever the container is idle, no live entry with a name is
\* ineligible under the current include and exclude.
C16_NoIneligibleNamedLive ==
  pc = "idle" =>
    \A k \in Live :
      cache[k].name # undefined =>
        ~Ineligible(include, exclude, cache[k].name)

C16_Witness ==
  /\ pc = "idle"
  /\ last.op = "exclude"
  /\ last.evicted # {}
  /\ include # NoPattern
  /\ exclude # NoPattern
  /\ \E k \in Live : cache[k].name # undefined

\* C17: a render leaves the cache as it is; a render of an eligible child
\* whose key has no live entry leaves keys as they are, stages the node on
\* display under that key and marks it; and a key gets a live entry only in
\* the commit that follows a render that missed on that key.
C17_EntriesCreatedAtCommit ==
  [][ /\ RenderStep => cache' = cache
      /\ (/\ RenderStep
          /\ _vnode'.componentOptions # NoOpts
          /\ ~Ineligible(include, exclude,
                         _getComponentName(_vnode'.componentOptions))
          /\ CacheKey(_vnode') \notin Live) =>
            /\ keys' = keys
            /\ vnodeToCache' = _vnode'
            /\ keyToCache' = CacheKey(_vnode')
            /\ _vnode'.keepAlive
      /\ \A k \in LiveKeys(cache') \ Live :
            /\ pc \in {"mounting", "updating"}
            /\ pc' = "idle"
            /\ last.op = "render"
            /\ last.kind = "miss"
            /\ last.key = k
            /\ keyToCache = k
            /\ vnodeToCache = _vnode
    ]_vars

C17_Witness ==
  /\ last.op = "commit"
  /\ last.kind = "insert"
  /\ Get(cache, last.key) # null
  /\ cache[last.key].componentInstance = _vnode.componentInstance
  /\ \E k \in DOMAIN cache : cache[k] = null

CommitStep ==
  /\ pc \in {"mounting", "updating", "idle"}
  /\ pc' = "idle"
  /\ include' = include
  /\ exclude' = exclude

\* C18: a commit with a staged node inserts under the staged key one entry
\* made of the staged node's name, tag and instance, with the staged key last
\* and once in keys, makes no other key live, and clears the staged node (the
\* entry is live after the commit unless the capacity check of the same
\* commit removed it again); a commit with no staged node leaves the cache,
\* keys and every instance as they were, so a second commit after the same
\* render inserts nothing.
C18_CommitInsertsOnce ==
  [][ CommitStep =>
        IF vnodeToCache # null
        THEN LET entry ==
                   CacheEntry(_getComponentName(vnodeToCache.componentOptions),
                              vnodeToCache.tag, vnodeToCache.componentInstance)
                 removed == [key |-> keyToCache, entry |-> entry]
             IN /\ vnodeToCache' = null
                /\ LiveKeys(cache') \ Live \subseteq {keyToCache}
                /\ \/ /\ cache'[keyToCache] = entry
                      /\ keys' # <<>>
                      /\ keys'[Len(keys')] = keyToCache
                      /\ Cardinality({i \in DOMAIN keys' :
                                        keys'[i] = keyToCache}) = 1
                      /\ removed \notin last'.evicted
                   \/ /\ cache'[keyToCache] = null
                      /\ removed \in last'.evicted
                      /\ MaxTruthy(max)
        ELSE /\ vnodeToCache' = null
             /\ UNCHANGED <<cache, keys, destroyCalls>>
    ]_vars

C18_Witness ==
  /\ pc = "idle"
  /\ last.op = "commit"
  /\ last.kind = "none"
  /\ vnodeToCache = null
  /\ Get(cache, keyToCache) # null
  /\ cache[keyToCache].componentInstance = _vnode.componentInstance
  /\ keys[Len(keys)] = keyToCache
  /\ Cardinality({i \in DOMAIN keys : keys[i] = keyToCache}) = 1
  /\ Len(keys) = 2

\* C19: in no state, the states between the statements of pruneCacheEntry
\* included, does a live entry hold an instance that has been torn down: the
\* entry is null before $destroy() is called.
C19_AbsentBeforeTeardown ==
  \A k \in Live : destroyCalls[cache[k].componentInstance] = 0

\* the key of a child without an explicit key, by constructor and tag
SyntheticKey(cid, tag) ==
  CASE cid = 1 /\ tag = undefined -> "1"
    [] cid = 1 /\ tag = "x" -> "1::x"
    [] cid = 2 /\ tag = undefined -> "2"
    [] cid = 2 /\ tag = "x" -> "2::x"

\* C20: the key a render resolves, and stages or looks the child up under,
\* is the child's explicit key when it has one, else the constructor's cid
\* alone when the component is registered under no tag and cid::tag when it
\* is; two children without an explicit key get the same key exactly when
\* their cid and their tag are the same.
C20_ResolveKey ==
  /\ (last.op = "render" /\ _vnode.keepAlive) =>
       LET opts == _vnode.componentOptions
           expected == IF _vnode.key # undefined THEN _vnode.key
                       ELSE SyntheticKey(opts.Ctor.cid, opts.tag)
       IN /\ last.key = expected
          /\ IF vnodeToCache = _vnode
             THEN keyToCache = expected
             ELSE /\ expected \in Live
                  /\ cache[expected].componentInstance =
                       _vnode.componentInstance
  /\ \A v1, v2 \in AllComponentVNodes :
       (v1.key = undefined /\ v2.key = undefined) =>
         (CacheKey(v1) = CacheKey(v2) <=>
            /\ v1.componentOptions.Ctor.cid = v2.componentOptions.Ctor.cid
            /\ v1.componentOptions.tag = v2.componentOptions.tag)

C20_Witness ==
  /\ last.op = "render"
  /\ last.kind = "hit"
  /\ _vnode.key = undefined
  /\ last.key = "2::x"
  /\ Live = {"2", "2::x"}

====
